---- MODULE Spec2Model ----
(***************************************************************************)
(* Model of jupyterlab/_version.py: the module-level code that parses the  *)
(* version string __version__ with the regular expression patt and builds  *)
(* the VersionInfo tuple version_info.                                     *)
(*                                                                         *)
(* A string is a sequence of one-character strings.  A Python value is a   *)
(* record [type, val]: a str carries its characters, an int its number.    *)
(***************************************************************************)
EXTENDS Integers, Sequences, FiniteSets, TLC

(***************************************************************************)
(* Python values                                                           *)
(***************************************************************************)
PyStr(s) == [type |-> "str", val |-> s]
PyInt(n) == [type |-> "int", val |-> n]
None == [type |-> "NoneType", val |-> <<>>]
Undefined == [type |-> "undefined", val |-> <<>>]

\* Equality of two Python values: the types are compared first.
PyEq(a, b) == a.type = b.type /\ a.val = b.val

\* Truth value of a Python value, as the operator `or` tests it.
Truthy(v) ==
    CASE v.type = "NoneType" -> FALSE
      [] v.type = "str" -> v.val # <<>>
      [] v.type = "int" -> v.val # 0
      [] OTHER -> FALSE

\* a or b
PyOr(a, b) == IF Truthy(a) THEN a ELSE b

(***************************************************************************)
(* Character classes of the pattern                                        *)
(***************************************************************************)
IsDigit(c) == c \in {"0", "1", "2", "3", "4", "5", "6", "7", "8", "9"}
IsSpace(c) == c \in {" ", "\t", "\n", "\r"}

Max(S) == CHOOSE x \in S : \A y \in S : y <= x
Min(S) == CHOOSE x \in S : \A y \in S : x <= y

\* The positions at which \d+ started at position from can end.
DigitRunEnds(s, from) ==
    {e \in from..Len(s) : \A k \in from..e : IsDigit(s[k])}

\* The positions at which \S+ started at position from can end.
NonSpaceEnds(s, from) ==
    {e \in from..Len(s) : \A k \in from..e : ~IsSpace(s[k])}

(***************************************************************************)
(* re.match(patt, s) for                                                   *)
(*   patt = (?P<major>\d+)\.(?P<minor>\d+)\.(?P<patch>\d+)                 *)
(*          ((?P<release>\S+)(?P<build>\d+))?                              *)
(* The match is anchored at the start of s only.  Every quantifier is      *)
(* greedy: it takes the longest run after which the rest of the pattern    *)
(* still matches, and gives characters back one at a time otherwise.       *)
(***************************************************************************)

\* Ends of the release group after which the build group can match.
ReleaseEnds(s, from) ==
    {e \in NonSpaceEnds(s, from) : DigitRunEnds(s, e + 1) # {}}

\* Ends of the minor group: followed by a dot and a patch digit.
MinorEnds(s, from) ==
    {e \in DigitRunEnds(s, from) :
        /\ e + 1 <= Len(s)
        /\ s[e + 1] = "."
        /\ DigitRunEnds(s, e + 2) # {}}

\* Ends of the major group: followed by a dot and a matching minor group.
MajorEnds(s) ==
    {e \in DigitRunEnds(s, 1) :
        /\ e + 1 <= Len(s)
        /\ s[e + 1] = "."
        /\ MinorEnds(s, e + 2) # {}}

\* \d+ of the patch group is greedy; the optional group after it can always
\* be skipped, so the longest digit run is kept.
PatchEndLazy(s, from) == Min(DigitRunEnds(s, from))
PatchEnd(s, from) == Max(DigitRunEnds(s, from))

\* \S+ of the release group is greedy: the longest run that leaves a digit.
ReleaseEndLazy(s, from) == Min(ReleaseEnds(s, from))
ReleaseEnd(s, from) == Max(ReleaseEnds(s, from))

\* \d+ of the build group is greedy.
BuildEnd(s, from) == Max(DigitRunEnds(s, from))

\* The text the release group captures: from its start to its end.
ReleaseSpanBuild(s, from, rend, bend) == SubSeq(s, from, bend)
ReleaseGroup(s, from, rend, bend) == SubSeq(s, from, rend)

\* The match object (its named groups), or None when patt does not match.
ReMatch(s) ==
    IF MajorEnds(s) = {} THEN None
    ELSE
      LET me == Max(MajorEnds(s))
          ne == Max(MinorEnds(s, me + 2))
          pe == PatchEnd(s, ne + 2)
          head == [major |-> PyStr(SubSeq(s, 1, me)),
                   minor |-> PyStr(SubSeq(s, me + 2, ne)),
                   patch |-> PyStr(SubSeq(s, ne + 2, pe))]
      IN IF ReleaseEnds(s, pe + 1) = {}
         THEN [type |-> "Match",
               val |-> [major |-> head.major, minor |-> head.minor,
                        patch |-> head.patch,
                        release |-> None, build |-> None]]
         ELSE LET re == ReleaseEnd(s, pe + 1)
                  be == BuildEnd(s, re + 1)
              IN [type |-> "Match",
                  val |-> [major |-> head.major, minor |-> head.minor,
                           patch |-> head.patch,
                           release |-> PyStr(ReleaseGroup(s, pe + 1, re, be)),
                           build |-> PyStr(SubSeq(s, re + 1, be))]]

(***************************************************************************)
(* Lines 26-32: the defaults and the normalisation of the release tag      *)
(***************************************************************************)
alpha == PyStr(<<"a", "l", "p", "h", "a">>)
candidate == PyStr(<<"c", "a", "n", "d", "i", "d", "a", "t", "e">>)
final == PyStr(<<"f", "i", "n", "a", "l">>)

\* release = match['release'] or 'final'
ReleaseDefault(m) == PyOr(m.release, final)
\* build = match['build'] or 0
BuildDefault(m) == PyOr(m.build, PyInt(0))

\* The release tag after lines 29-32.

NormalizeNoAlpha(r) ==
    IF PyEq(r, PyStr(<<"r", "c">>)) THEN candidate ELSE r
NormalizeRelease(r) ==
    IF PyEq(r, PyStr(<<"a">>)) THEN alpha
    ELSE IF PyEq(r, PyStr(<<"r", "c">>)) THEN candidate
    ELSE r

\* The namedtuple of lines 7-13.
VersionInfo(a, b, c, d, e) ==
    [type |-> "VersionInfo",
     val |-> [major |-> a, minor |-> b, micro |-> c,
              releaselevel |-> d, serial |-> e]]

\* Lines 21-35 as one function of the version string: the tuple the module
\* ends with, or Undefined when line 23 raises.
Parse(s) ==
    LET m == ReMatch(s)
    IN IF m.type = "NoneType" THEN Undefined
       ELSE VersionInfo(m.val.major, m.val.minor, m.val.patch,
                        NormalizeRelease(ReleaseDefault(m.val)),
                        BuildDefault(m.val))

(***************************************************************************)
(* Version strings the module is loaded with                               *)
(***************************************************************************)
shipped == <<"1", ".", "0", ".", "0", "a", "3">>

MaxPatchLen == 2
MaxBuildLen == 2

\* All non-empty strings over the characters cs of length at most n.
RECURSIVE StrsUpTo(_, _)
StrsUpTo(cs, n) ==
    IF n = 0 THEN {}
    ELSE LET shorter == StrsUpTo(cs, n - 1)
         IN {<<c>> : c \in cs} \cup shorter
              \cup {Append(t, c) : t \in shorter, c \in cs}

MajorMinor ==
    {<<"1", ".", "0", ".">>, <<"2", ".", "3", ".">>,
     <<"0", ".", "1", ".">>, <<"1", "0", ".", "0", "2", ".">>}
Patches == StrsUpTo({"0", "1"}, MaxPatchLen)
Tags ==
    {<<"a">>, <<"r", "c">>, <<"b">>, <<"r">>, <<"a", "r", "c">>,
     <<"f", "i", "n", "a", "l">>, <<"a", "l", "p", "h", "a">>,
     <<".">>, <<"a", "1", "b">>, <<"-", "r", "c">>}
Builds == StrsUpTo({"0", "3"}, MaxBuildLen)
Trails == {<<>>, <<"b">>, <<" ", "a", "1">>}
NoBuild == {<<>>, <<"a">>, <<" ", "a", "3">>, <<"r", "c", " ", "1">>}

WellFormed ==
    {h \o p \o t : h \in MajorMinor, p \in Patches, t \in NoBuild}
      \cup {h \o p \o g \o b \o t :
              h \in MajorMinor, p \in Patches, g \in Tags,
              b \in Builds, t \in Trails}
Malformed ==
    {<<>>, <<"a", "b", "c">>, <<"1", ".", "0">>, <<"1", ".", ".", "0">>,
     <<"a", "1", ".", "0", ".", "0">>, <<" ", "1", ".", "0", ".", "0">>,
     <<"1", ".", "0", ".", "a", "3">>, <<"1", "0", "0", "a", "3">>}
Inputs == WellFormed \cup Malformed \cup {shipped}

(***************************************************************************)
(* The module-level code as a state machine                                *)
(***************************************************************************)
VARIABLES __version__, match, major, minor, micro, release, build,
          version_info, raised, pc

vars == <<__version__, match, major, minor, micro, release, build,
          version_info, raised, pc>>

Init ==
    /\ __version__ \in Inputs
    /\ match = Undefined
    /\ major = Undefined
    /\ minor = Undefined
    /\ micro = Undefined
    /\ release = Undefined
    /\ build = Undefined
    /\ version_info = Undefined
    /\ raised = "none"
    /\ pc = "match"

\* Line 21: match = re.match(patt, __version__)
Match ==
    /\ pc = "match"
    /\ match' = ReMatch(__version__)
    /\ pc' = "extract"
    /\ UNCHANGED <<__version__, major, minor, micro, release, build,
                   version_info, raised>>

\* Lines 23-27 when the pattern matched.
Extract ==
    /\ pc = "extract"
    /\ match.type = "Match"
    /\ major' = match.val.major
    /\ minor' = match.val.minor
    /\ micro' = match.val.patch
    /\ release' = ReleaseDefault(match.val)
    /\ build' = BuildDefault(match.val)
    /\ pc' = "normalize"
    /\ UNCHANGED <<__version__, match, version_info, raised>>

\* Line 23 when match is None: None['major'] raises TypeError and the
\* module stops loading.
ExtractRaise ==
    /\ pc = "extract"
    /\ match.type = "NoneType"
    /\ raised' = "TypeError"
    /\ pc' = "raised"
    /\ UNCHANGED <<__version__, match, major, minor, micro, release, build,
                   version_info>>

\* Lines 29-32
Normalize ==
    /\ pc = "normalize"
    /\ release' = NormalizeRelease(release)
    /\ pc' = "create"
    /\ UNCHANGED <<__version__, match, major, minor, micro, build,
                   version_info, raised>>

\* Line 35
Create ==
    /\ pc = "create"
    /\ version_info' = VersionInfo(major, minor, micro, release, build)
    /\ pc' = "done"
    /\ UNCHANGED <<__version__, match, major, minor, micro, release, build,
                   raised>>

Next == Match \/ Extract \/ ExtractRaise \/ Normalize \/ Create

Spec == Init /\ [][Next]_vars

(***************************************************************************)
(* Reading a version string by its written form, independently of patt     *)
(***************************************************************************)
RECURSIVE LeadDigits(_)
\* The number of digits s begins with.
LeadDigits(s) ==
    IF s = <<>> \/ ~IsDigit(Head(s)) THEN 0 ELSE 1 + LeadDigits(Tail(s))

RECURSIVE LeadNonSpace(_)
\* The number of non-whitespace characters s begins with.
LeadNonSpace(s) ==
    IF s = <<>> \/ IsSpace(Head(s)) THEN 0 ELSE 1 + LeadNonSpace(Tail(s))

RECURSIVE LeadNonDigit(_)
\* The number of characters, neither digit nor whitespace, s begins with.
LeadNonDigit(s) ==
    IF s = <<>> \/ IsDigit(Head(s)) \/ IsSpace(Head(s)) THEN 0
    ELSE 1 + LeadNonDigit(Tail(s))

Drop(s, n) == SubSeq(s, n + 1, Len(s))
Take(s, n) == SubSeq(s, 1, n)

\* s read as X "." Y "." Z tail, with X, Y, Z the digit runs.
NotAVersion == [ok |-> FALSE, X |-> <<>>, Y |-> <<>>, Z |-> <<>>, tail |-> <<>>]
Shape(s) ==
    LET a == LeadDigits(s)
    IN IF a = 0 \/ Len(s) <= a \/ s[a + 1] # "." THEN NotAVersion
       ELSE LET s2 == Drop(s, a + 1)
                b == LeadDigits(s2)
            IN IF b = 0 \/ Len(s2) <= b \/ s2[b + 1] # "." THEN NotAVersion
               ELSE LET s3 == Drop(s2, b + 1)
                        c == LeadDigits(s3)
                    IN IF c = 0 THEN NotAVersion
                       ELSE [ok |-> TRUE, X |-> Take(s, a), Y |-> Take(s2, b),
                             Z |-> Take(s3, c), tail |-> Drop(s3, c)]

\* tail is the tag followed by a non-empty digit sequence and nothing else.
HasTag(tail, tag) ==
    /\ Len(tail) > Len(tag)
    /\ Take(tail, Len(tag)) = tag
    /\ LeadDigits(Drop(tail, Len(tag))) = Len(tail) - Len(tag)

DigitVal(c) ==
    CASE c = "0" -> 0 [] c = "1" -> 1 [] c = "2" -> 2 [] c = "3" -> 3
      [] c = "4" -> 4 [] c = "5" -> 5 [] c = "6" -> 6 [] c = "7" -> 7
      [] c = "8" -> 8 [] c = "9" -> 9

RECURSIVE DecVal(_)
\* The number a digit sequence writes.
DecVal(s) ==
    IF s = <<>> THEN 0
    ELSE 10 * DecVal(Take(s, Len(s) - 1)) + DigitVal(s[Len(s)])

DigitChar(d) ==
    CASE d = 0 -> "0" [] d = 1 -> "1" [] d = 2 -> "2" [] d = 3 -> "3"
      [] d = 4 -> "4" [] d = 5 -> "5" [] d = 6 -> "6" [] d = 7 -> "7"
      [] d = 8 -> "8" [] d = 9 -> "9"

RECURSIVE DecStr(_)
\* The decimal digits of a natural number.
DecStr(n) ==
    IF n < 10 THEN <<DigitChar(n)>>
    ELSE Append(DecStr(n \div 10), DigitChar(n % 10))

\* The field v holds the digit sequence ds, as the string itself or as the
\* integer it writes.
FieldIs(v, ds) ==
    \/ v.type = "str" /\ v.val = ds
    \/ v.type = "int" /\ v.val = DecVal(ds)

\* A field written out as text.
ToText(v) == IF v.type = "int" THEN DecStr(v.val) ELSE v.val

\* The canonical string of a record: major.minor.micro, then the release
\* level and the serial when the record came from a string with a suffix.
Canonical(r, suffix) ==
    ToText(r.major) \o <<".">> \o ToText(r.minor) \o <<".">>
      \o ToText(r.micro)
      \o (IF suffix THEN ToText(r.releaselevel) \o ToText(r.serial)
          ELSE <<>>)

\* Two records are equal in all five fields.
SameRecord(r, q) ==
    /\ r.type = "VersionInfo"
    /\ q.type = "VersionInfo"
    /\ PyEq(r.val.major, q.val.major)
    /\ PyEq(r.val.minor, q.val.minor)
    /\ PyEq(r.val.micro, q.val.micro)
    /\ PyEq(r.val.releaselevel, q.val.releaselevel)
    /\ PyEq(r.val.serial, q.val.serial)

Done == pc = "done"
info == version_info.val
form == Shape(__version__)

(***************************************************************************)
(* Properties                                                              *)
(***************************************************************************)

\* C1: loaded with the shipped string '1.0.0a3', version_info is major 1,
\* minor 0, micro 0 (integers or digit strings), releaselevel 'alpha',
\* serial 3.
C1_ShippedVersion ==
    __version__ = shipped =>
        /\ pc # "raised"
        /\ Done =>
            /\ FieldIs(info.major, <<"1">>)
            /\ FieldIs(info.minor, <<"0">>)
            /\ FieldIs(info.micro, <<"0">>)
            /\ PyEq(info.releaselevel, alpha)
            /\ FieldIs(info.serial, <<"3">>)

C1_Witness == Done /\ __version__ = shipped

\* C2: a string X.Y.Z without suffix parses to major X, minor Y, micro Z
\* (the whole digit run), releaselevel 'final' and serial 0.
C2_PlainTriple ==
    (form.ok /\ form.tail = <<>>) =>
        /\ pc # "raised"
        /\ Done =>
            /\ FieldIs(info.major, form.X)
            /\ FieldIs(info.minor, form.Y)
            /\ FieldIs(info.micro, form.Z)
            /\ PyEq(info.releaselevel, final)
            /\ FieldIs(info.serial, <<"0">>)

C2_Witness ==
    /\ Done
    /\ form.ok
    /\ form.tail = <<>>
    /\ Len(form.Z) >= 2
    /\ Len(form.X) >= 2

\* C3: X.Y.Z followed by 'a' and a digit sequence N of any length parses to
\* releaselevel 'alpha' and serial N, the whole digit sequence.
C3_AlphaSerial ==
    (Done /\ form.ok /\ HasTag(form.tail, <<"a">>)) =>
        /\ PyEq(info.releaselevel, alpha)
        /\ FieldIs(info.serial, Drop(form.tail, 1))

\* C4: X.Y.Z followed by 'rc' and a digit sequence N of any length parses to
\* releaselevel 'candidate' and serial N, the whole digit sequence.
C4_CandidateSerial ==
    (Done /\ form.ok /\ HasTag(form.tail, <<"r", "c">>)) =>
        /\ PyEq(info.releaselevel, candidate)
        /\ FieldIs(info.serial, Drop(form.tail, 2))

\* C5: an input that does not begin with the major.minor.patch digit pattern
\* fails with MalformedVersionError; version_info is never defined and no
\* field value is left.
C5_MalformedVersionError ==
    (~form.ok /\ pc \notin {"match", "extract"}) =>
        /\ pc = "raised"
        /\ raised = "MalformedVersionError"
        /\ version_info.type = "undefined"
        /\ major.type = "undefined"
        /\ minor.type = "undefined"
        /\ micro.type = "undefined"
        /\ release.type = "undefined"
        /\ build.type = "undefined"

\* C6: the releaselevel of every produced record is one of 'alpha',
\* 'candidate', 'final', whatever raw tag the string carries.
C6_ThreeLabels ==
    Done => info.releaselevel \in {alpha, candidate, final}

\* C7: major, minor, micro and serial of every produced record are integers,
\* non-negative, and serial has the same type with and without a suffix.
C7_IntegerFields ==
    Done =>
        /\ info.major.type = "int"
        /\ info.minor.type = "int"
        /\ info.micro.type = "int"
        /\ info.serial.type = "int"
        /\ info.major.val >= 0
        /\ info.minor.val >= 0
        /\ info.micro.val >= 0
        /\ info.serial.val >= 0

\* C8: X.Y.Z followed by a non-digit tag T other than 'a' and 'rc' and a
\* digit sequence N parses to releaselevel T unchanged and serial N.
C8_OtherTagUnchanged ==
    LET n == LeadNonDigit(form.tail)
        T == Take(form.tail, n)
    IN (/\ Done
        /\ form.ok
        /\ n > 0
        /\ T \notin {<<"a">>, <<"r", "c">>}
        /\ HasTag(form.tail, T)) =>
            /\ PyEq(info.releaselevel, PyStr(T))
            /\ FieldIs(info.serial, Drop(form.tail, n))

\* C9: writing a produced record back as its canonical string (with the
\* release level and serial when the source string had a suffix) and parsing
\* that string again gives a record equal in all five fields.
C9_ReparseCanonical ==
    Done =>
        SameRecord(Parse(Canonical(info, match.val.release.type = "str")),
                   version_info)

C9_Witness ==
    /\ Done
    /\ PyEq(match.val.release, PyStr(<<"r", "c">>))
    /\ PyEq(info.releaselevel, candidate)
    /\ Canonical(info, TRUE) # __version__

\* C10: when the optional suffix group matches, the build is exactly one
\* digit: the last digit of the non-whitespace run after the patch digits
\* that is not the first character of the run.  The release is everything
\* of the run before that digit, so it may contain digits and does not begin
\* with one; what follows the build digit is ignored.
C10_OneDigitBuild ==
    (match.type = "Match" /\ match.val.release.type = "str") =>
        LET run == Take(form.tail, LeadNonSpace(form.tail))
            cut == {p \in 2..Len(run) : IsDigit(run[p])}
        IN /\ form.ok
           /\ cut # {}
           /\ Len(match.val.build.val) = 1
           /\ match.val.build.val = <<run[Max(cut)]>>
           /\ match.val.release.val = Take(run, Max(cut) - 1)
           /\ ~IsDigit(match.val.release.val[1])

C10_Witness ==
    /\ Done
    /\ match.val.release.type = "str"
    /\ \E i \in 1..Len(match.val.release.val) :
          IsDigit(match.val.release.val[i])
    /\ Len(form.tail) > Len(match.val.release.val) + 1

====
